---- MODULE Spec2Model ----
(***************************************************************************)
(* Model of webpack-node-utils: the WebpackNodeUtilsRunner plugin          *)
(* (src/runner.js), a webpack plugin that forks the built bundle after     *)
(* every compilation and kills it when the next compilation starts.        *)
(*                                                                         *)
(* Strings are sequences of tokens (a token is an atomic piece of text),   *)
(* so that concatenation, `includes`, the /\.js$/i match, `join` and       *)
(* `path.resolve` are computed on the text and not assumed.                *)
(***************************************************************************)
EXTENDS Integers, Sequences, FiniteSets, TLC

VARIABLES
    build,          \* which revision of the runner is loaded
    callbacks,      \* FakeCompiler.callbacks: the events with a handler
    _entry,         \* this._entry
    _entryPath,     \* this._entryPath
    _running,       \* this._running
    _instance,      \* this._instance (0 is null, n > 0 the n-th forked child)
    _setup,         \* this._setup
    console,        \* the lines written with console.log, in order
    childOps,       \* the calls made to child_process: fork(path), kill()
    callbackCalls,  \* how many times the after-emit callback was invoked
    thrown,         \* how many handler calls ended with an exception
    delivered,      \* how many times the compiler has triggered each event
    onPattern,      \* the events so far begin after-emit, done, compile, done, ...
    compilation,    \* <<assets>> of the after-emit that ran the setup, else <<>>
    alive,          \* the forked children that have not exited yet
    files,          \* the configuration modules on disk, by path
    now,            \* what Date.now() returns
    loaded,         \* <<>>, or <<the call of config() and what came of it>>
    packageJSON,    \* the package.json of the project root
    instances,      \* how many instances of WebpackNodeUtils there are
    outcome         \* <<>>, or <<the last call of externals() or of the constructor>>

\* the variables of the configuration loader (src/index.js)
loaderVars == <<files, now, loaded, packageJSON, instances, outcome>>

\* those of them that externals() and the constructor have to do with
utilsVars == <<packageJSON, instances, outcome>>

\* the variables of the runner plugin and of its compiler
runnerVars == <<build, callbacks, _entry, _entryPath, _running, _instance, _setup,
                console, childOps, callbackCalls, thrown, delivered, onPattern,
                compilation, alive>>

vars == <<build, callbacks, _entry, _entryPath, _running, _instance, _setup,
          console, childOps, callbackCalls, thrown, delivered, onPattern, compilation,
          alive, files, now, loaded, packageJSON, instances, outcome>>

----------------------------------------------------------------------------
(* Bounds *)

MaxAssets == 2
MaxEvents == 6

----------------------------------------------------------------------------
(* JavaScript values *)

Null == <<"null">>
Undefined == <<"undefined">>
NullInstance == 0

\* JavaScript truthiness of a string-or-null value
Truthy(v) == v # Null /\ v # Undefined /\ v # <<>>

\* a.indexOf(tok) >= 0 / a.includes(tok), for a token the tokenisation keeps whole
Includes(s, tok) == \E i \in 1..Len(s) : s[i] = tok

IndexOf_FirstOnly(entries, e) ==
    IF Len(entries) > 0 /\ entries[1] = e THEN 0 ELSE -1

\* entries.indexOf(e): 0-based position of the first occurrence, -1 when absent
IndexOf(entries, e) ==
    IF \E i \in 1..Len(entries) : entries[i] = e
    THEN (CHOOSE i \in 1..Len(entries) :
            entries[i] = e /\ \A j \in 1..(i - 1) : entries[j] # e) - 1
    ELSE -1

ToLowerCase(tok) == IF tok = ".JS" THEN ".js" ELSE tok

\* existsAt.match(/\.js$/i)
MatchDotJs(s) == Len(s) > 0 /\ ToLowerCase(s[Len(s)]) = ".js"

RECURSIVE Join(_, _)
\* entries.join(sep)
Join(entries, sep) ==
    IF Len(entries) = 0 THEN <<>>
    ELSE IF Len(entries) = 1 THEN entries[1]
    ELSE entries[1] \o <<sep>> \o Join(Tail(entries), sep)

----------------------------------------------------------------------------
(* path.resolve (posix) *)

Cwd == <<"/", "home", "/", "project">>

RECURSIVE Split(_)
\* the segments of a path between its "/" separators
Split(p) ==
    IF Len(p) = 0 THEN << <<>> >>
    ELSE LET rest == Split(Tail(p))
         IN  IF Head(p) = "/" THEN << <<>> >> \o rest
             ELSE << <<Head(p)>> \o Head(rest) >> \o Tail(rest)

RECURSIVE Normalize(_, _)
\* drops "" and ".", and lets ".." remove the segment before it
Normalize(segs, acc) ==
    IF Len(segs) = 0 THEN acc
    ELSE LET s == Head(segs)
         IN  IF s = <<>> \/ s = <<".">> THEN Normalize(Tail(segs), acc)
             ELSE IF s = <<"..">>
                  THEN Normalize(Tail(segs),
                                 IF Len(acc) = 0 THEN acc
                                 ELSE SubSeq(acc, 1, Len(acc) - 1))
                  ELSE Normalize(Tail(segs), Append(acc, s))

IsAbsolute(p) == Len(p) > 0 /\ p[1] = "/"

PathResolve_Identity(p) == p

PathResolve(p) ==
    LET full == IF IsAbsolute(p) THEN p
                ELSE IF Len(p) = 0 THEN Cwd
                ELSE Cwd \o <<"/">> \o p
        segs == Normalize(Split(full), <<>>)
    IN  <<"/">> \o Join(segs, "/")

----------------------------------------------------------------------------
(* The compilation the compiler hands to after-emit *)

\* an asset of compilation.assets: its key and its existsAt
Asset(name, existsAt) == [name |-> name, existsAt |-> existsAt]

Artifacts ==
    { Asset(<<"app">>, <<".", "/", "app", ".js">>),
      Asset(<<"app">>, <<>>),
      Asset(<<"backend">>, <<"/", "dist", "/", "lib", "/", "..", "/", "backend", ".JS">>),
      Asset(<<"app", ".", "hot-update">>, <<"app", ".", "hot-update", ".js">>),
      Asset(<<"styles">>, <<"dist", "/", "styles", ".css">>) }

\* compilation.assets: an ordered mapping, no key twice
AssetsOfLen(n) ==
    { a \in [1..n -> Artifacts] :
        \A i, j \in 1..n : i # j => a[i].name # a[j].name }

Compilations == UNION { AssetsOfLen(n) : n \in 0..MaxAssets }

\* Object.keys(compilation.assets)
ObjectKeys(assets) == [i \in 1..Len(assets) |-> assets[i].name]

\* compilation.assets[name]
AssetNamed(assets, name) ==
    assets[CHOOSE i \in 1..Len(assets) : assets[i].name = name]

\* the entry names a plugin is constructed with (undefined, '', a name)
EntryArgs == { Undefined, <<>>, <<"app">>, <<"random">> }

Builds == { "runner.js", "part_002" }

\* the events the plugin hooks
Events == { "after-emit", "compile", "done" }

----------------------------------------------------------------------------
(* Logging *)

logColors == [info |-> "grey", error |-> "red", warn |-> "yellow", success |-> "green"]

Prefix == "[WebpackNodeUtilsRunner] "

\* console.log(colors[logColor](logMsg))
_log(out, msg, color) ==
    LET logMsg == IF Truthy(msg) THEN <<Prefix>> \o msg ELSE <<>>
        logColor == IF Truthy(color) THEN color ELSE <<"white">>
    IN  Append(out, [color |-> logColor[1], text |-> logMsg])

_logInfo(out, msg) == _log(out, msg, <<logColors.info>>)
_logError(out, msg) == _log(out, msg, <<logColors.error>>)
_logWarn(out, msg) == _log(out, msg, <<logColors.warn>>)
_logSuccess(out, msg) == _log(out, msg, <<logColors.success>>)

_logAvailableEntries(out, entries) ==
    LET list == Join(entries, ", ")
    IN  _logInfo(out, <<"These are the available entries: ">> \o list)

----------------------------------------------------------------------------
(* The configuration loader while the plugin is what runs *)

\* no configuration on disk and no call of config()
LoaderIdle ==
    /\ files = <<>>
    /\ now = 0
    /\ loaded = <<>>
    /\ packageJSON = <<>>
    /\ instances = 0
    /\ outcome = <<>>

----------------------------------------------------------------------------
(* The plugin *)

\* constructor(entry): the state of a new instance
Constructor(entry) ==
    /\ _entry = (IF Truthy(entry) THEN entry ELSE Null)
    /\ _entryPath = Null
    /\ _running = FALSE
    /\ _instance = NullInstance
    /\ _setup = FALSE

Init ==
    /\ build \in Builds
    /\ \E entry \in EntryArgs : Constructor(entry)
    /\ callbacks = {}
    /\ console = <<>>
    /\ childOps = <<>>
    /\ callbackCalls = 0
    /\ thrown = 0
    /\ delivered = [event \in Events |-> 0]
    /\ onPattern = TRUE
    /\ compilation = <<>>
    /\ alive = {}
    /\ LoaderIdle

Apply_WithoutDone ==
    /\ callbacks' = (callbacks \cup {"after-emit"}) \cup {"compile"}
    /\ UNCHANGED <<build, _entry, _entryPath, _running, _instance, _setup,
                   console, childOps, callbackCalls, thrown, delivered, onPattern,
                   compilation, alive>>
    /\ UNCHANGED loaderVars

\* apply(compiler): compiler.plugin(event, handler), three times
Apply ==
    /\ callbacks' = (callbacks \cup {"after-emit"}) \cup {"compile"} \cup {"done"}
    /\ UNCHANGED <<build, _entry, _entryPath, _running, _instance, _setup,
                   console, childOps, callbackCalls, thrown, delivered, onPattern,
                   compilation, alive>>
    /\ UNCHANGED loaderVars

\* the number of events triggered so far
Triggered == delivered["after-emit"] + delivered["compile"] + delivered["done"]

\* the event that continues the sequence after-emit, done, (compile, done)^n
PatternNext ==
    IF Triggered = 0 THEN "after-emit"
    ELSE IF Triggered % 2 = 1 THEN "done" ELSE "compile"

\* compiler.trigger(event): the event has a handler and is delivered
Trigger(event) ==
    /\ event \in callbacks
    /\ Triggered < MaxEvents
    /\ delivered' = [delivered EXCEPT ![event] = @ + 1]
    /\ onPattern' = (onPattern /\ event = PatternNext)

\* the filter of src/runner.js: no hot-update chunks
FilterHotUpdate(assets) ==
    LET keep(a) == ~Includes(a, "hot-update")
    IN  SelectSeq(ObjectKeys(assets), keep)

\* the filter of the later revision: no hot-update chunks, and only files
\* that exist on disk with a .js extension
FilterEmittedJs(assets) ==
    LET keep(a) == /\ ~Includes(a, "hot-update")
                   /\ Truthy(AssetNamed(assets, a).existsAt)
                   /\ MatchDotJs(AssetNamed(assets, a).existsAt)
    IN  SelectSeq(ObjectKeys(assets), keep)

EntriesOf(assets) ==
    IF build = "runner.js" THEN FilterHotUpdate(assets) ELSE FilterEmittedJs(assets)

NeedsSetup_Always == TRUE

NeedsSetup_UntilEntry == ~_setup \/ ~Truthy(_entry)

\* if (!this._setup)
NeedsSetup == ~_setup

\* this._entry && entries.indexOf(this._entry) === -1
EntryMissing(entries) == Truthy(_entry) /\ IndexOf(entries, _entry) = -1

\* !this._entry && entries.length === 1
OnlyEntry(entries) == ~Truthy(_entry) /\ Len(entries) = 1

FallbackEntry_Never(entries) == FALSE

\* !this._entry && entries.length > 1
FallbackEntry(entries) == ~Truthy(_entry) /\ Len(entries) > 1

FirstEntry_Last(entries) == entries[Len(entries)]

\* this._entry = entries[0]
FirstEntry(entries) == entries[1]

\* the value of this._entry after the four branches
SelectEntry(entries) ==
    IF EntryMissing(entries) THEN Null
    ELSE IF OnlyEntry(entries) THEN FirstEntry(entries)
    ELSE IF FallbackEntry(entries) THEN FirstEntry(entries)
    ELSE _entry

LogMissing_NoListing(out, entries) ==
    _logError(out, <<"The required entry (">> \o _entry \o <<") doesn't exist">>)

LogMissing(out, entries) ==
    _logAvailableEntries(
        _logError(out, <<"The required entry (">> \o _entry \o <<") doesn't exist">>),
        entries)

LogOnly(out, entries) ==
    _logSuccess(out, <<"Using the only available entry: ">> \o FirstEntry(entries))

LogFallback(out, entries) ==
    _logAvailableEntries(
        _logWarn(out, <<"Doing fallback to the first entry: ">> \o FirstEntry(entries)),
        entries)

LogFollowing(out) ==
    _logSuccess(out, <<"Using the following entry: ">> \o _entry)

\* the lines the four branches log
SelectLog(out, entries) ==
    IF EntryMissing(entries) THEN LogMissing(out, entries)
    ELSE IF OnlyEntry(entries) THEN LogOnly(out, entries)
    ELSE IF FallbackEntry(entries) THEN LogFallback(out, entries)
    ELSE LogFollowing(out)

InvokeCallback_OnlyOnSetup ==
    callbackCalls' = IF _setup THEN callbackCalls ELSE callbackCalls + 1

\* callback()
InvokeCallback == callbackCalls' = callbackCalls + 1

OnAssetsEmitted_Stops(assets) ==
    /\ Trigger("after-emit")
    /\ IF NeedsSetup
       THEN LET entries == EntriesOf(assets)
                entry == SelectEntry(entries)
                out == SelectLog(_log(console, Undefined, Undefined), entries)
            IN  /\ _setup' = TRUE
                /\ compilation' = <<assets>>
                /\ _entry' = entry
                /\ IF Truthy(entry)
                   THEN LET entryPath == PathResolve(AssetNamed(assets, entry).existsAt)
                        IN  /\ _entryPath' = entryPath
                            /\ console' = _logSuccess(out, <<"Entry file: ">> \o entryPath)
                   ELSE /\ _entryPath' = _entryPath
                        /\ console' = out
       ELSE UNCHANGED <<_setup, _entry, _entryPath, console, compilation>>
    /\ InvokeCallback
    /\ _running' = FALSE
    /\ UNCHANGED <<build, callbacks, _instance, childOps, thrown, alive>>
    /\ UNCHANGED loaderVars

\* _onAssetsEmitted(compilation, callback)
OnAssetsEmitted(assets) ==
    /\ Trigger("after-emit")
    /\ IF NeedsSetup
       THEN LET entries == EntriesOf(assets)
                entry == SelectEntry(entries)
                out == SelectLog(_log(console, Undefined, Undefined), entries)
            IN  /\ _setup' = TRUE
                /\ compilation' = <<assets>>
                /\ _entry' = entry
                /\ IF Truthy(entry)
                   THEN LET entryPath == PathResolve(AssetNamed(assets, entry).existsAt)
                        IN  /\ _entryPath' = entryPath
                            /\ console' = _logSuccess(out, <<"Entry file: ">> \o entryPath)
                   ELSE /\ _entryPath' = _entryPath
                        /\ console' = out
       ELSE UNCHANGED <<_setup, _entry, _entryPath, console, compilation>>
    /\ InvokeCallback
    /\ UNCHANGED <<build, callbacks, _running, _instance, childOps, thrown, alive>>
    /\ UNCHANGED loaderVars

ShouldStop_WhenStopped == Truthy(_entry) /\ ~_running

\* this._entry && this._running && this._instance
ShouldStop == Truthy(_entry) /\ _running /\ _instance # NullInstance

StopChild_KeepsRunning ==
    /\ console' = _logInfo(console, <<"Stopping bundle process">>)
    /\ childOps' = Append(childOps, [op |-> "kill", child |-> _instance, path |-> Null])
    /\ _instance' = NullInstance
    /\ _running' = _running
    /\ alive' = alive

StopChild_WaitsForExit ==
    /\ console' = _logInfo(console, <<"Stopping bundle process">>)
    /\ childOps' = Append(childOps, [op |-> "kill", child |-> _instance, path |-> Null])
    /\ _instance' = NullInstance
    /\ _running' = FALSE
    /\ alive' = alive \ {_instance}

StopChild_Silent ==
    /\ console' = console
    /\ childOps' = Append(childOps, [op |-> "kill", child |-> _instance, path |-> Null])
    /\ _instance' = NullInstance
    /\ _running' = FALSE
    /\ alive' = alive

StopChild_NoKill ==
    /\ console' = _logInfo(console, <<"Stopping bundle process">>)
    /\ childOps' = childOps
    /\ _instance' = NullInstance
    /\ _running' = FALSE
    /\ alive' = alive

\* this._instance.kill(), and the instance is forgotten; kill() only sends
\* the signal, the child exits later
StopChild ==
    /\ console' = _logInfo(console, <<"Stopping bundle process">>)
    /\ childOps' = Append(childOps, [op |-> "kill", child |-> _instance, path |-> Null])
    /\ _instance' = NullInstance
    /\ _running' = FALSE
    /\ alive' = alive

\* _onCompilationStarts()
OnCompilationStarts ==
    /\ Trigger("compile")
    /\ IF ShouldStop
       THEN StopChild
       ELSE UNCHANGED <<console, childOps, _instance, _running, alive>>
    /\ UNCHANGED <<build, callbacks, _entry, _entryPath, _setup, callbackCalls,
                   thrown, compilation>>
    /\ UNCHANGED loaderVars

\* the number of children forked so far
Forked(ops) == Cardinality({ i \in 1..Len(ops) : ops[i].op = "fork" })

\* the number of children asked to stop so far
Killed(ops) == Cardinality({ i \in 1..Len(ops) : ops[i].op = "kill" })

ShouldStart_IgnoresRunning == Truthy(_entry)

ShouldStart_IgnoresEntry == ~_running

\* this._entry && !this._running
ShouldStart == Truthy(_entry) /\ ~_running

StartChild_NoHandle ==
    \/ /\ _instance' = _instance
       /\ childOps' = Append(childOps,
             [op |-> "fork", child |-> Forked(childOps) + 1, path |-> _entryPath])
       /\ console' = _logSuccess(_log(console, Undefined, Undefined),
                                 <<"Starting bundle process">>)
       /\ _running' = TRUE
       /\ alive' = alive \cup {Forked(childOps) + 1}
       /\ UNCHANGED thrown
    \/ /\ _entryPath = Null
       /\ thrown' = thrown + 1
       /\ UNCHANGED <<console, childOps, _instance, _running, alive>>

\* this._instance = fork(this._entryPath), logged, and this._running = true.
\* fork(null) depends on the Node release: it raises a TypeError before
\* anything is assigned, or it starts a child with the argument 'null'.
StartChild ==
    \/ /\ _instance' = Forked(childOps) + 1
       /\ childOps' = Append(childOps,
             [op |-> "fork", child |-> Forked(childOps) + 1, path |-> _entryPath])
       /\ console' = _logSuccess(_log(console, Undefined, Undefined),
                                 <<"Starting bundle process">>)
       /\ _running' = TRUE
       /\ alive' = alive \cup {Forked(childOps) + 1}
       /\ UNCHANGED thrown
    \/ /\ _entryPath = Null
       /\ thrown' = thrown + 1
       /\ UNCHANGED <<console, childOps, _instance, _running, alive>>

\* _onCompilationEnds()
OnCompilationEnds ==
    /\ Trigger("done")
    /\ IF ShouldStart
       THEN StartChild
       ELSE UNCHANGED <<console, childOps, _instance, _running, thrown, alive>>
    /\ UNCHANGED <<build, callbacks, _entry, _entryPath, _setup, callbackCalls,
                   compilation>>
    /\ UNCHANGED loaderVars

ChildExits_Noticed(child) ==
    /\ child \in alive
    /\ alive' = alive \ {child}
    /\ _running' = (IF child = _instance THEN FALSE ELSE _running)
    /\ _instance' = (IF child = _instance THEN NullInstance ELSE _instance)
    /\ UNCHANGED <<build, callbacks, _entry, _entryPath, _setup,
                   console, childOps, callbackCalls, thrown, delivered, onPattern,
                   compilation>>
    /\ UNCHANGED loaderVars

\* a forked child exits, by itself or because of the signal kill() sent
ChildExits(child) ==
    /\ child \in alive
    /\ alive' = alive \ {child}
    /\ UNCHANGED <<build, callbacks, _entry, _entryPath, _running, _instance, _setup,
                   console, childOps, callbackCalls, thrown, delivered, onPattern,
                   compilation>>
    /\ UNCHANGED loaderVars

Next ==
    \/ Apply
    \/ \E assets \in Compilations : OnAssetsEmitted(assets)
    \/ OnCompilationStarts
    \/ OnCompilationEnds

Spec == Init /\ [][Next]_vars

\* the plugin together with its children, which exit when they please
NextWithChildren ==
    \/ Apply
    \/ \E assets \in Compilations : OnAssetsEmitted(assets)
    \/ OnCompilationStarts
    \/ OnCompilationEnds
    \/ \E child \in alive : ChildExits(child)

SpecWithChildren == Init /\ [][NextWithChildren]_vars

----------------------------------------------------------------------------
(* Observations used by the properties *)

\* the step delivers this event to its handler
Delivers(event) == delivered'[event] = delivered[event] + 1

\* the events delivered so far, counted
Delivered(emits, compiles, dones) ==
    /\ delivered["after-emit"] = emits
    /\ delivered["compile"] = compiles
    /\ delivered["done"] = dones

\* the first after-emit has run and left an entry
EntrySelected == _setup /\ Truthy(_entry)

\* the state of the plugin instance
plugin == <<_entry, _entryPath, _running, _instance, _setup>>

\* a console line
Line(color, text) == [color |-> color, text |-> text]
Blank == Line("white", <<>>)

----------------------------------------------------------------------------
(* C1: with an entry selected, `done` while stopped forks exactly one child
   from the stored entry path, keeps its handle and sets running; `done`
   while running forks nothing, changes no state and logs nothing. *)
C1_DoneStartsOnce ==
    [][ (Delivers("done") /\ EntrySelected) =>
          IF ~_running
          THEN /\ _entryPath # Null
               /\ Len(childOps') = Len(childOps) + 1
               /\ SubSeq(childOps', 1, Len(childOps)) = childOps
               /\ childOps'[Len(childOps')].op = "fork"
               /\ childOps'[Len(childOps')].path = _entryPath
               /\ _instance' = childOps'[Len(childOps')].child
               /\ _instance' # NullInstance
               /\ \A i \in 1..Len(childOps) : childOps[i].child # _instance'
               /\ _running'
               /\ thrown' = thrown
          ELSE /\ plugin' = plugin
               /\ UNCHANGED <<childOps, console, callbackCalls, thrown>> ]_vars

C1_Witness ==
    /\ EntrySelected
    /\ Delivered(1, 0, 2)
    /\ _running
    /\ childOps = << [op |-> "fork", child |-> _instance, path |-> _entryPath] >>
    /\ Len(console) = 5

(* C2: with an entry selected, `compile` while running with a handle held asks
   exactly that child to stop, clears the handle and clears running;
   `compile` while stopped asks nothing, changes no state and logs nothing. *)
C2_CompileStopsOnce ==
    [][ (Delivers("compile") /\ Truthy(_entry)) =>
          IF _running /\ _instance # NullInstance
          THEN /\ Len(childOps') = Len(childOps) + 1
               /\ SubSeq(childOps', 1, Len(childOps)) = childOps
               /\ childOps'[Len(childOps')].op = "kill"
               /\ childOps'[Len(childOps')].child = _instance
               /\ _instance' = NullInstance
               /\ ~_running'
          ELSE /\ ~_running
               /\ plugin' = plugin
               /\ UNCHANGED <<childOps, console, callbackCalls, thrown>> ]_vars

C2_Witness ==
    /\ EntrySelected
    /\ Delivered(1, 3, 1)
    /\ ~_running
    /\ _instance = NullInstance
    /\ Len(childOps) = 2
    /\ childOps[1].path = _entryPath
    /\ childOps[2] = [op |-> "kill", child |-> childOps[1].child, path |-> Null]

\* the events so far are after-emit, done, (compile, done)^n
IsRestartRun ==
    /\ onPattern
    /\ Triggered >= 2
    /\ Triggered % 2 = 0

(* C3: after the events after-emit, done, (compile, done)^n on an instance
   whose entry resolves there are n+1 forks and n kills, they alternate
   starting with a fork, every kill is for the child forked just before it,
   and the plugin is running and holds the child forked last. *)
C3_RestartRun ==
    (IsRestartRun /\ Truthy(_entry)) =>
        LET n == (Triggered - 2) \div 2
        IN  /\ Forked(childOps) = n + 1
            /\ Killed(childOps) = n
            /\ Len(childOps) = 2 * n + 1
            /\ \A i \in 1..Len(childOps) :
                  IF i % 2 = 1
                  THEN /\ childOps[i].op = "fork"
                       /\ childOps[i].path = _entryPath
                       /\ \A j \in 1..(i - 1) : childOps[j].child # childOps[i].child
                  ELSE /\ childOps[i].op = "kill"
                       /\ childOps[i].child = childOps[i - 1].child
            /\ _running
            /\ _instance = childOps[Len(childOps)].child

C3_Witness ==
    /\ IsRestartRun
    /\ Triggered = 6
    /\ Truthy(_entry)
    /\ Forked(childOps) = 3
    /\ Killed(childOps) = 2

(* C4: the first after-emit sets the setup flag; every later after-emit,
   whatever its assets, leaves the entry, the entry path and the flag as they
   are and logs nothing, and still calls the callback. *)
C4_SetupOnce ==
    [][ Delivers("after-emit") =>
          /\ _setup'
          /\ _setup => /\ UNCHANGED <<_entry, _entryPath, _setup, console>>
                       /\ callbackCalls' = callbackCalls + 1 ]_vars

C4_Witness ==
    /\ delivered["after-emit"] = 2
    /\ _setup
    /\ callbackCalls = 2
    /\ Len(console) = 3

(* C5: every after-emit calls the callback exactly once, in every branch of
   the setup and when the setup is already done; compile and done never call
   it: after k after-emit events it has been called k times. *)
C5_CallbackPerEmit ==
    callbackCalls = delivered["after-emit"]

C5_Witness ==
    /\ Delivered(3, 1, 1)
    /\ ~Truthy(_entry)
    /\ callbackCalls = 3

(* C6: once the first after-emit has left no entry, no later event forks or
   kills a child or raises an exception: compile and done change nothing. *)
C6_InertWithoutEntry ==
    [][ (_setup /\ ~Truthy(_entry)) =>
          /\ UNCHANGED <<childOps, thrown, _running, _instance, _entry,
                         _entryPath, _setup, console>>
          /\ (Delivers("compile") \/ Delivers("done")) =>
                 UNCHANGED <<callbackCalls>> ]_vars

C6_Witness ==
    /\ _setup
    /\ ~Truthy(_entry)
    /\ Delivered(2, 1, 2)
    /\ Len(console) = 3
    /\ console[2].color = "red"
    /\ childOps = <<>>
    /\ thrown = 0

----------------------------------------------------------------------------
(* The setup, seen from outside *)

\* the step is the after-emit that runs the setup
RunsSetup == Delivers("after-emit") /\ ~_setup

\* the lines the step has added to the console
NewLines == SubSeq(console', Len(console) + 1, Len(console'))

\* the console only grows
Logged == Len(console') >= Len(console) /\ SubSeq(console', 1, Len(console)) = console

\* the candidates of the setup: the filtered keys of the compilation it ran on
Candidates == EntriesOf(compilation'[1])

\* the position of a name among the keys of the compilation the setup ran on
KeyIndex(name) ==
    CHOOSE i \in 1..Len(compilation'[1]) : compilation'[1][i].name = name

Tagged(text) == <<Prefix>> \o text

(* C7: with no entry name given and more than one candidate, the setup
   selects the candidate that comes first in the order of the assets mapping,
   stores the absolute path of that asset, and logs exactly four lines: a
   blank one, the fallback warning, the list of all candidates, the entry
   file. *)
C7_FallbackToFirst ==
    [][ (RunsSetup /\ ~Truthy(_entry) /\ Len(Candidates) > 1) =>
          /\ \E i \in 1..Len(Candidates) : Candidates[i] = _entry'
          /\ \A i \in 1..Len(Candidates) :
                Candidates[i] # _entry' => KeyIndex(_entry') < KeyIndex(Candidates[i])
          /\ IsAbsolute(_entryPath')
          /\ _entryPath' = PathResolve(compilation'[1][KeyIndex(_entry')].existsAt)
          /\ Logged
          /\ NewLines =
               << Blank,
                  Line("yellow", Tagged(<<"Doing fallback to the first entry: ">> \o _entry')),
                  Line("grey", Tagged(<<"These are the available entries: ">>
                                        \o Join(Candidates, ", "))),
                  Line("green", Tagged(<<"Entry file: ">> \o _entryPath')) >> ]_vars

C7_Witness ==
    /\ _setup
    /\ Len(compilation[1]) = 2
    /\ compilation[1][1].name = <<"backend">>
    /\ compilation[1][2].name = <<"app">>
    /\ compilation[1][2].existsAt = <<".", "/", "app", ".js">>
    /\ _entry = <<"backend">>
    /\ Len(console) = 4
    /\ console[2].color = "yellow"
    /\ _entryPath = <<"/", "dist", "/", "backend", ".JS">>

(* C8: with an entry name given that is not among the candidates, the setup
   reports the error, clears the entry, lists the candidates, stores no entry
   path, and logs exactly three lines: a blank one, the error, the list. *)
C8_MissingEntry ==
    [][ (RunsSetup /\ Truthy(_entry)
           /\ \A i \in 1..Len(Candidates) : Candidates[i] # _entry) =>
          /\ _entry' = Null
          /\ _entryPath' = Null
          /\ Logged
          /\ NewLines =
               << Blank,
                  Line("red", Tagged(<<"The required entry (">> \o _entry
                                       \o <<") doesn't exist">>)),
                  Line("grey", Tagged(<<"These are the available entries: ">>
                                        \o Join(Candidates, ", "))) >> ]_vars

C8_Witness ==
    /\ _setup
    /\ Len(compilation[1]) = 2
    /\ compilation[1][1].name = <<"backend">>
    /\ compilation[1][2].name = <<"styles">>
    /\ _entry = Null
    /\ _entryPath = Null
    /\ Len(console) = 3
    /\ console[2] = Line("red", Tagged(<<"The required entry (", "random", ") doesn't exist">>))

(* C9: with an entry name given that is among the candidates, the setup keeps
   the name, also when there are other candidates and when it is not the
   first, stores the absolute path of its asset, and logs exactly three
   lines: a blank one, 'Using the following entry', the entry file. *)
C9_KeepsGivenEntry ==
    [][ (RunsSetup /\ Truthy(_entry)
           /\ \E i \in 1..Len(Candidates) : Candidates[i] = _entry) =>
          /\ _entry' = _entry
          /\ IsAbsolute(_entryPath')
          /\ _entryPath' = PathResolve(compilation'[1][KeyIndex(_entry)].existsAt)
          /\ Logged
          /\ NewLines =
               << Blank,
                  Line("green", Tagged(<<"Using the following entry: ">> \o _entry)),
                  Line("green", Tagged(<<"Entry file: ">> \o _entryPath')) >> ]_vars

C9_Witness ==
    /\ _setup
    /\ Len(compilation[1]) = 2
    /\ compilation[1][1].name = <<"backend">>
    /\ compilation[1][2] = Asset(<<"app">>, <<".", "/", "app", ".js">>)
    /\ _entry = <<"app">>
    /\ _entryPath = <<"/", "home", "/", "project", "/", "app", ".js">>
    /\ Len(console) = 3
    /\ console[2] = Line("green", Tagged(<<"Using the following entry: ", "app">>))

(* C10: with no entry name given and exactly one candidate, the setup selects
   that asset, logs 'Using the only available entry' and neither a warning
   nor a list, and stores the absolute path of the asset. *)
C10_OnlyCandidate ==
    [][ (RunsSetup /\ ~Truthy(_entry) /\ Len(Candidates) = 1) =>
          /\ _entry' = Candidates[1]
          /\ IsAbsolute(_entryPath')
          /\ _entryPath' = PathResolve(compilation'[1][KeyIndex(_entry')].existsAt)
          /\ Logged
          /\ NewLines =
               << Blank,
                  Line("green", Tagged(<<"Using the only available entry: ">> \o _entry')),
                  Line("green", Tagged(<<"Entry file: ">> \o _entryPath')) >>
          /\ \A i \in 1..Len(NewLines) : NewLines[i].color \notin {"yellow", "grey"} ]_vars

C10_Witness ==
    /\ _setup
    /\ compilation = << << Asset(<<"app">>, <<".", "/", "app", ".js">>) >> >>
    /\ _entry = <<"app">>
    /\ _entryPath = <<"/", "home", "/", "project", "/", "app", ".js">>
    /\ console = << Blank,
                    Line("green", Tagged(<<"Using the only available entry: ", "app">>)),
                    Line("green", Tagged(<<"Entry file: ", "/", "home", "/", "project",
                                           "/", "app", ".js">>)) >>

----------------------------------------------------------------------------
(* C11: the entry the setup selects is always an asset whose name has no
   'hot-update' in it and whose existsAt is present and ends in .js; the
   other assets are not candidates, neither for a given name nor as the
   fallback. *)
C11_SelectedIsEmittedScript ==
    (_setup /\ Truthy(_entry)) =>
        LET asset == AssetNamed(compilation[1], _entry)
        IN  /\ ~Includes(asset.name, "hot-update")
            /\ Truthy(asset.existsAt)
            /\ MatchDotJs(asset.existsAt)

(* C12: once the first after-emit has run, the entry and the entry path never
   change again, whatever events follow; and from then on the entry path is
   set exactly when an entry is selected. *)
C12_EntryFixedAfterSetup ==
    [][ /\ _setup => UNCHANGED <<_entry, _entryPath, _setup>>
        /\ _setup' => (Truthy(_entry') <=> _entryPath' # Null) ]_vars

C12_Witness ==
    /\ _setup
    /\ Delivered(3, 1, 2)
    /\ _entry = <<"backend">>
    /\ _entryPath = <<"/", "dist", "/", "backend", ".JS">>
    /\ Killed(childOps) = 1

(* C13: compile only sends the kill and forgets the handle, the child is
   still alive when the handler returns; done forks the next child whether
   or not an earlier child is still alive. So two children of one plugin can
   be alive together (the witness). *)
C13_NoWaitForExit ==
    [][ /\ (Delivers("compile") /\ Truthy(_entry) /\ _running
              /\ _instance # NullInstance) =>
                /\ alive' = alive
                /\ _instance' = NullInstance
                /\ childOps'[Len(childOps')] =
                      [op |-> "kill", child |-> _instance, path |-> Null]
        /\ (Delivers("done") /\ EntrySelected /\ ~_running) =>
                /\ Len(childOps') = Len(childOps) + 1
                /\ _instance' \notin alive
                /\ alive' = alive \cup {_instance'} ]_vars

C13_Witness ==
    /\ EntrySelected
    /\ _running
    /\ _instance \in alive
    /\ Cardinality(alive) = 2
    /\ \E i \in 1..Len(childOps) :
          /\ childOps[i].op = "kill"
          /\ childOps[i].child \in alive
          /\ childOps[i].child # _instance

(* C14: apply registers a handler for after-emit, for compile and for done
   and does nothing else: no child is forked or killed, nothing is logged,
   the plugin state stays as it is; as long as apply was not called the
   plugin has no handler registered and no event reaches it. *)
C14_ApplyOnlyRegisters ==
    [][ /\ callbacks' # callbacks =>
              /\ callbacks = {}
              /\ callbacks' = Events
              /\ plugin' = plugin
              /\ UNCHANGED <<console, childOps, callbackCalls, thrown, delivered,
                             compilation, alive>>
        /\ callbacks = {} =>
              /\ delivered' = delivered
              /\ plugin' = plugin
              /\ UNCHANGED <<console, childOps, callbackCalls>> ]_vars

C14_Witness ==
    /\ callbacks = Events
    /\ Triggered = 0
    /\ ~_setup
    /\ ~_running
    /\ childOps = <<>>
    /\ console = <<>>

----------------------------------------------------------------------------
(* JavaScript values of the configuration loader: strings are sequences of
   tokens, numbers are naturals, objects are functions from keys to values *)

EmptyObject == [key \in {} |-> 0]

JsUndefined == [t |-> "undefined", n |-> 0, s |-> <<>>, o |-> EmptyObject]
JsNull == [t |-> "null", n |-> 0, s |-> <<>>, o |-> EmptyObject]
Str(s) == [t |-> "string", n |-> 0, s |-> s, o |-> EmptyObject]
Num(n) == [t |-> "number", n |-> n, s |-> <<>>, o |-> EmptyObject]
Obj(o) == [t |-> "object", n |-> 0, s |-> <<>>, o |-> o]

\* what `v || w` and `if (v)` take v for
ToBoolean(v) ==
    CASE v.t = "undefined" -> FALSE
      [] v.t = "null" -> FALSE
      [] v.t = "string" -> v.s # <<>>
      [] v.t = "number" -> v.n # 0
      [] OTHER -> TRUE

\* v || w
Or(v, w) == IF ToBoolean(v) THEN v ELSE w

\* object[key], undefined for a key the object does not have
Get(object, key) == IF key \in DOMAIN object THEN object[key] ELSE JsUndefined

\* delete object[key]
Delete(object, key) == [k \in (DOMAIN object) \ {key} |-> object[k]]

ObjectAssign_TargetWins(target, source) ==
    [key \in (DOMAIN target) \cup (DOMAIN source) |->
        IF key \in DOMAIN target THEN target[key] ELSE source[key]]

\* Object.assign(target, source): the keys of source are written over target
ObjectAssign(target, source) ==
    [key \in (DOMAIN target) \cup (DOMAIN source) |->
        IF key \in DOMAIN source THEN source[key] ELSE target[key]]

Digit(d) == <<"0", "1", "2", "3", "4", "5", "6", "7", "8", "9">>[d + 1]

RECURSIVE Digits(_)
\* the decimal digits of a natural number
Digits(n) == IF n < 10 THEN <<Digit(n)>> ELSE Digits(n \div 10) \o <<Digit(n % 10)>>

\* `${v}` for the values a template meets here
StringOf(v) ==
    CASE v.t = "string" -> v.s
      [] v.t = "number" -> Digits(v.n)
      [] v.t = "undefined" -> <<"undefined">>
      [] v.t = "null" -> <<"null">>
      [] OTHER -> <<"[object Object]">>

----------------------------------------------------------------------------
(* The configuration files *)

MaxStack == 4
MaxLoads == 2

\* path.join(a, b)
PathJoin(a, b) ==
    LET joined == a \o <<"/">> \o b
        segs == Normalize(Split(joined), <<>>)
    IN  IF IsAbsolute(joined) THEN <<"/">> \o Join(segs, "/")
        ELSE IF Len(segs) = 0 THEN <<".">>
        ELSE Join(segs, "/")

\* the path this.require(path.join(directory, `${name}.js`)) loads
ModulePath(directory, name) ==
    PathJoin(Cwd, PathJoin(directory, StringOf(name) \o <<".js">>))

\* a function a configuration file exports: the object it returns, whether it
\* puts the parameters it was called with in the object, and whether it
\* returns one and the same object on every call
ConfigFn(config, echo, shared) == [config |-> config, echo |-> echo, shared |-> shared]

\* a configuration file: the function it exports and the variations on it
ConfigModule(call, props) == [call |-> call, props |-> props]

NoProps == [name \in {} |-> ConfigFn(EmptyObject, FALSE, FALSE)]

Named(name) == "name" :> Str(name)
Extends(parent) == "extends" :> parent

MocksDir == <<"tests", "/", "mocks">>
\* the directory argument of config()
Directories == { <<".", "/", "tests", "/", "mocks", "/">> }

AppProduction(parent, shared) ==
    ConfigModule(
        ConfigFn(IF parent = JsUndefined THEN Named(<<"app-production">>)
                 ELSE Named(<<"app-production">>) @@ Extends(parent),
                 FALSE, shared),
        <<"custom">> :> ConfigFn(Named(<<"app-production-custom">>), TRUE, FALSE))

ServerDevelopment ==
    ConfigModule(
        ConfigFn(Named(<<"server-development">>), FALSE, FALSE),
        <<"library">> :> ConfigFn(Named(<<"server-development-commonjs">>)
                                    @@ Extends(Str(<<"base">>)), FALSE, FALSE))

Base(parent) ==
    ConfigModule(
        ConfigFn(IF parent = JsUndefined
                 THEN Named(<<"base">>) @@ "fromBase" :> Str(<<"true">>)
                 ELSE Named(<<"base">>) @@ "fromBase" :> Str(<<"true">>)
                        @@ Extends(parent),
                 FALSE, FALSE),
        <<"library">> :> ConfigFn(Named(<<"base-commonjs">>), TRUE, FALSE))

Common ==
    ConfigModule(
        ConfigFn(Named(<<"common">>) @@ "fromBase" :> Str(<<"false">>)
                   @@ "resolve" :> Str(<<"js">>), FALSE, FALSE),
        NoProps)

\* what app.production.js and base.js may give as `extends`
AppParents ==
    { JsUndefined, Str(<<>>), Str(<<"base">>), Str(<<"app", ".", "production">>),
      Str(<<"missing">>) }
BaseParents == { JsUndefined, Str(<<"common">>), Str(<<"app", ".", "production">>) }

Disk(appParent, appShared, baseParent) ==
    ModulePath(MocksDir, Str(<<"app", ".", "production">>))
            :> AppProduction(appParent, appShared)
    @@ ModulePath(MocksDir, Str(<<"server", ".", "development">>)) :> ServerDevelopment
    @@ ModulePath(MocksDir, Str(<<"base">>)) :> Base(baseParent)
    @@ ModulePath(MocksDir, Str(<<"common">>)) :> Common

\* app.production.js with every parent and base.js without one, and
\* app.production.js extending base.js with every parent
Disks ==
    { Disk(appParent, FALSE, JsUndefined) : appParent \in AppParents }
    \cup { Disk(Str(<<"base">>), appShared, baseParent) :
              appShared \in BOOLEAN, baseParent \in BaseParents }

----------------------------------------------------------------------------
(* WebpackNodeUtils.config and _loadConfig *)

\* the (target, type) pairs config() is called with
Targets ==
    { [target |-> <<"app">>, type |-> <<"production">>],
      [target |-> <<"server">>, type |-> <<"development">>],
      [target |-> <<"back">>, type |-> <<"dev">>] }

\* the params argument
ParamsArgs ==
    { JsUndefined, JsNull, Obj(EmptyObject),
      Obj("paramOne" :> Str(<<"charito">>) @@ "paramTwo" :> Num(25)),
      Obj("hash" :> Str(<<"abc">>)),
      Obj("hashStr" :> Str(<<"-", "v1">>)) }

\* the fn argument
FnArgs == { JsUndefined, Str(<<"library">>), Str(<<"custom">>) }

Hash(useHash, clock) == IF useHash THEN Num(clock) ELSE Str(<<>>)

HashStr_NoDot(useHash, hash) == IF useHash THEN Str(StringOf(hash)) ELSE Str(<<>>)

HashStr(useHash, hash) == IF useHash THEN Str(<<".">> \o StringOf(hash)) ELSE Str(<<>>)

\* the params every configuration function is called with
Params(useHash, params, clock) ==
    LET hash == Hash(useHash, clock)
        hashStr == HashStr(useHash, hash)
    IN  ObjectAssign("hash" :> hash @@ "hashStr" :> hashStr,
                     Or(params, Obj(EmptyObject)).o)

\* `${target}.${type}`
ConfigName(target, type) == Str(target \o <<".">> \o type)

\* the object a configuration function returns for the params
CallConfig(configFn, params) ==
    IF configFn.echo THEN ObjectAssign(configFn.config, "params" :> Obj(params))
    ELSE configFn.config

Merge_ParentOnTop(baseConfig, config) ==
    ObjectAssign(ObjectAssign(EmptyObject, config), baseConfig)

\* merge(baseConfig, config), for the top-level keys
Merge(baseConfig, config) ==
    ObjectAssign(ObjectAssign(EmptyObject, baseConfig), config)

HasExtends_Always(config) == TRUE

\* if (config.extends)
HasExtends(config) == ToBoolean(Get(config, "extends"))

ParentFn_Inherited(fn) == fn

\* the fn of the recursive call, which has three arguments
ParentFn(fn) == JsUndefined

Overflows_AtSecond(depth) == depth > 1

Overflows_AtThird(depth) == depth > 2

\* the call stack has no room for one more _loadConfig
Overflows(depth) == depth > MaxStack

Throws_Swallowed(error, disk, calls, merges) ==
    [ok |-> TRUE, error |-> "", config |-> EmptyObject, disk |-> disk,
     calls |-> calls, merges |-> merges]

\* a call that threw
Throws(error, disk, calls, merges) ==
    [ok |-> FALSE, error |-> error, config |-> EmptyObject, disk |-> disk,
     calls |-> calls, merges |-> merges]

\* a call that returned config
Returns(config, disk, calls, merges) ==
    [ok |-> TRUE, error |-> "", config |-> config, disk |-> disk,
     calls |-> calls, merges |-> merges]

RECURSIVE _loadConfig(_, _, _, _, _, _)
_loadConfig(disk, directory, name, params, fn, depth) ==
    LET modulePath == ModulePath(directory, name)
    IN  IF Overflows(depth) THEN Throws("RangeError", disk, <<>>, <<>>)
        ELSE IF modulePath \notin DOMAIN disk
        THEN Throws("MODULE_NOT_FOUND", disk, <<>>, <<>>)
        ELSE IF ToBoolean(fn) /\ fn.s \notin DOMAIN disk[modulePath].props
        THEN Throws("TypeError", disk, <<>>, <<>>)
        ELSE
        LET configModule == disk[modulePath]
            configFn == IF ToBoolean(fn) THEN configModule.props[fn.s]
                        ELSE configModule.call
            config == CallConfig(configFn, params)
            call == [path |-> modulePath, fn |-> fn, params |-> params]
        IN  IF ~HasExtends(config) THEN Returns(config, disk, <<call>>, <<>>)
            ELSE
            LET base == _loadConfig(disk, directory, Get(config, "extends"),
                                    params, ParentFn(fn), depth + 1)
                own == Delete(config, "extends")
                kept == [configFn EXCEPT !.config = own]
                disk2 == IF ~configFn.shared THEN base.disk
                         ELSE IF ToBoolean(fn)
                         THEN [base.disk EXCEPT ![modulePath].props[fn.s] = kept]
                         ELSE [base.disk EXCEPT ![modulePath].call = kept]
            IN  IF ~base.ok
                THEN Throws(base.error, base.disk, <<call>> \o base.calls, base.merges)
                ELSE Returns(Merge(base.config, own), disk2, <<call>> \o base.calls,
                             Append(base.merges, <<base.config, own>>))


\* how many times config() was called
Loads == IF loaded = <<>> THEN 0 ELSE loaded[1].count

\* config(directory, target, type, useHash, params, fn), with now what
\* Date.now() returns next, a millisecond later every time; and what the call
\* leaves: its arguments, the files it found, the params it made, what it
\* returned or threw, the configuration functions it called and the calls of
\* merge
Config(directory, target, type, useHash, params, fn) ==
    /\ Loads < MaxLoads
    /\ \E bag \in { Params(useHash, params, now) } :
       \E load \in { _loadConfig(files, directory, ConfigName(target, type), bag,
                                 Or(fn, Str(<<>>)), 1) } :
           /\ files' = load.disk
           /\ loaded' = << [count |-> Loads + 1,
                            args |-> [directory |-> directory, target |-> target,
                                      type |-> type, useHash |-> useHash,
                                      params |-> params, fn |-> fn],
                            before |-> files,
                            params |-> bag,
                            ok |-> load.ok,
                            error |-> load.error,
                            config |-> load.config,
                            calls |-> load.calls,
                            merges |-> load.merges] >>
    /\ now' = (IF useHash THEN now + 1 ELSE now)
    /\ UNCHANGED utilsVars
    /\ UNCHANGED runnerVars

\* no plugin was made
RunnerIdle ==
    /\ build = "part_002"
    /\ Constructor(Undefined)
    /\ callbacks = {}
    /\ console = <<>>
    /\ childOps = <<>>
    /\ callbackCalls = 0
    /\ thrown = 0
    /\ delivered = [event \in Events |-> 0]
    /\ onPattern = TRUE
    /\ compilation = <<>>
    /\ alive = {}

InitConfig ==
    /\ RunnerIdle
    /\ files \in Disks
    /\ now = 9
    /\ loaded = <<>>
    /\ packageJSON = <<>>
    /\ instances = 0
    /\ outcome = <<>>

NextConfig ==
    \E directory \in Directories, target \in Targets, useHash \in BOOLEAN,
          params \in ParamsArgs, fn \in FnArgs :
            Config(directory, target.target, target.type, useHash, params, fn)

SpecConfig == InitConfig /\ [][NextConfig]_vars

----------------------------------------------------------------------------
(* What a call of config() is seen to do *)

\* config() was called, and Called is what the last call left
HasCalled == loaded # <<>>
Called == loaded[1]

\* the params argument of the call as a mapping
CallerParams(load) ==
    IF load.args.params.t = "object" THEN load.args.params.o ELSE EmptyObject

\* the file the call names with its target and its type
TopPath(load) ==
    ModulePath(load.args.directory, ConfigName(load.args.target, load.args.type))

\* the file is on the disk and exports the function the call asks for
HasSelected(disk, load) ==
    /\ TopPath(load) \in DOMAIN disk
    /\ ToBoolean(load.args.fn) => load.args.fn.s \in DOMAIN disk[TopPath(load)].props

\* the object the function the call asks for returns for the params of the call
Produced(disk, load) ==
    LET configModule == disk[TopPath(load)]
    IN  CallConfig(IF ToBoolean(load.args.fn) THEN configModule.props[load.args.fn.s]
                   ELSE configModule.call,
                   load.params)

\* the file the object names as its parent
ParentPath(load, config) == ModulePath(load.args.directory, Get(config, "extends"))

\* the object names a parent
NamesParent(config) == ToBoolean(Get(config, "extends"))

\* the object the parent's exported function returns for the params of the call
ProducedByParent(disk, load) ==
    CallConfig(disk[ParentPath(load, Produced(disk, load))].call, load.params)

\* the call loads a configuration with one parent, which has no parent
SingleLink(disk, load) ==
    /\ HasSelected(disk, load)
    /\ NamesParent(Produced(disk, load))
    /\ ParentPath(load, Produced(disk, load)) \in DOMAIN disk
    /\ ~NamesParent(ProducedByParent(disk, load))

(* C15: a configuration that extends another one, which extends none, comes
   back as merge(parent, child): every top-level key of the parent and of the
   child (but `extends`) is in the result, with the child's value where both
   have the key, and merge was called once, with the parent's object and the
   child's. *)
C15_ExtendsMergesChildOnTop ==
    (HasCalled /\ SingleLink(Called.before, Called)) =>
        LET child == Delete(Produced(Called.before, Called), "extends")
            parent == ProducedByParent(Called.before, Called)
        IN  /\ Called.ok
            /\ Called.merges = << <<parent, child>> >>
            /\ DOMAIN Called.config = (DOMAIN parent) \cup (DOMAIN child)
            /\ \A key \in DOMAIN child : Called.config[key] = child[key]
            /\ \A key \in (DOMAIN parent) \ (DOMAIN child) :
                  Called.config[key] = parent[key]

C15_Witness ==
    /\ HasCalled
    /\ Called.args.target = <<"app">>
    /\ Called.args.fn = JsUndefined
    /\ Called.ok
    /\ Len(Called.merges) = 1
    /\ Len(Called.calls) = 2
    /\ Called.config = ("name" :> Str(<<"app-production">>)
                         @@ "fromBase" :> Str(<<"true">>))

(* C16: when the object the selected configuration function returns has no
   `extends`, config() returns exactly that object, the function was called
   once with the params of the call, and merge was not called. *)
C16_NoExtendsReturnsProduced ==
    (/\ HasCalled
     /\ HasSelected(Called.before, Called)
     /\ "extends" \notin DOMAIN Produced(Called.before, Called)) =>
        /\ Called.ok
        /\ Called.config = Produced(Called.before, Called)
        /\ Called.merges = <<>>
        /\ Called.calls = << [path |-> TopPath(Called),
                              fn |-> Or(Called.args.fn, Str(<<>>)),
                              params |-> Called.params] >>

C16_Witness ==
    /\ HasCalled
    /\ Called.args.target = <<"app">>
    /\ Called.args.fn = Str(<<"custom">>)
    /\ Called.args.useHash
    /\ Called.ok
    /\ Called.merges = <<>>
    /\ Get(Called.config, "name") = Str(<<"app-production-custom">>)
    /\ Get(Called.config, "params") = Obj(Called.params)
    /\ Get(Called.params, "paramOne") = Str(<<"charito">>)

(* C17: the params a configuration function gets always have hash and hashStr;
   without useHash and without a hash or hashStr of the caller's they are the
   empty string; every key of the caller's params has the caller's value, hash
   and hashStr too; there is no other key; undefined and null params give
   what an empty object gives. *)
C17_ParamsDefaultsAndOverrides ==
    HasCalled =>
        LET given == CallerParams(Called)
            bag == Called.params
        IN  /\ {"hash", "hashStr"} \subseteq DOMAIN bag
            /\ DOMAIN bag = {"hash", "hashStr"} \cup DOMAIN given
            /\ \A key \in DOMAIN given : bag[key] = given[key]
            /\ (~Called.args.useHash /\ "hash" \notin DOMAIN given) =>
                  bag["hash"] = Str(<<>>)
            /\ (~Called.args.useHash /\ "hashStr" \notin DOMAIN given) =>
                  bag["hashStr"] = Str(<<>>)
            /\ Called.args.params \in {JsUndefined, JsNull} =>
                  DOMAIN bag = {"hash", "hashStr"}
            /\ \A i \in 1..Len(Called.calls) : Called.calls[i].params = bag

C17_Witness ==
    /\ HasCalled
    /\ Called.args.useHash
    /\ Called.args.params = Obj("hash" :> Str(<<"abc">>))
    /\ Called.params["hash"] = Str(<<"abc">>)
    /\ Called.params["hashStr"] = Str(<<".", "9">>)
    /\ Len(Called.calls) = 2

(* C18, as the claim has it: with useHash the hashStr of the params is "."
   and the string of their hash, whatever params the caller gave. *)
C18_HashStrIsDotHash ==
    (HasCalled /\ Called.args.useHash) =>
        Called.params["hashStr"] = Str(<<".">> \o StringOf(Called.params["hash"]))

(* C18: with useHash, and params of the caller's that have neither hash nor
   hashStr, the hashStr of the params is "." and the string of their hash,
   the hash is the time of the call, and every configuration function of the
   call gets these params. *)
C18_HashStrIsDotHashUnlessGiven ==
    (/\ HasCalled
     /\ Called.args.useHash
     /\ "hash" \notin DOMAIN CallerParams(Called)
     /\ "hashStr" \notin DOMAIN CallerParams(Called)) =>
        /\ Called.params["hash"].t = "number"
        /\ Called.params["hash"].n < now
        /\ Called.params["hashStr"] =
              Str(<<".">> \o StringOf(Called.params["hash"]))
        /\ \A i \in 1..Len(Called.calls) :
              Called.calls[i].params = Called.params

C18_Witness ==
    /\ HasCalled
    /\ Called.args.useHash
    /\ Called.args.params = Obj("paramOne" :> Str(<<"charito">>)
                                @@ "paramTwo" :> Num(25))
    /\ Called.params["hash"] = Num(10)
    /\ Called.params["hashStr"] = Str(<<".", "1", "0">>)
    /\ Len(Called.calls) = 2

\* the last of the configuration functions the call went through
LastCall(load) == load.calls[Len(load.calls)]

(* C19: every parent is loaded with the very params the first configuration
   function got, hash and hashStr as they were, and with no fn, so that what
   it gives is what the function its file exports gives, also when the call
   named a variation for the first file. *)
C19_ParentGetsSameParamsNoFn ==
    HasCalled =>
        /\ \A i \in 2..Len(Called.calls) :
              /\ Called.calls[i].params = Called.calls[1].params
              /\ Called.calls[i].params = Called.params
              /\ Called.calls[i].fn = JsUndefined
        /\ (Called.ok /\ Len(Called.calls) > 1) =>
              Called.merges[1][1] =
                  CallConfig(Called.before[LastCall(Called).path].call, Called.params)

C19_Witness ==
    /\ HasCalled
    /\ Called.args.target = <<"server">>
    /\ Called.args.fn = Str(<<"library">>)
    /\ Called.args.useHash
    /\ Called.ok
    /\ Len(Called.calls) = 2
    /\ Called.calls[1].fn = Str(<<"library">>)
    /\ Called.calls[2].fn = JsUndefined
    /\ Called.calls[2].params = Called.params
    /\ Called.config = ("name" :> Str(<<"server-development-commonjs">>)
                         @@ "fromBase" :> Str(<<"true">>))

RECURSIVE Ancestry(_, _, _, _, _, _)
\* where following `extends` from a file leads: to a file with no parent
\* ("root"), to a file or a variation that is not there ("broken"), or through
\* more files than the disk has, that is round a cycle ("cycle")
Ancestry(disk, directory, name, params, fn, left) ==
    LET modulePath == ModulePath(directory, name)
    IN  IF modulePath \notin DOMAIN disk THEN "broken"
        ELSE IF ToBoolean(fn) /\ fn.s \notin DOMAIN disk[modulePath].props THEN "broken"
        ELSE LET config == CallConfig(IF ToBoolean(fn) THEN disk[modulePath].props[fn.s]
                                      ELSE disk[modulePath].call, params)
             IN  IF ~NamesParent(config) THEN "root"
                 ELSE IF left = 0 THEN "cycle"
                 ELSE Ancestry(disk, directory, Get(config, "extends"), params,
                               JsUndefined, left - 1)

\* where the configuration of the call leads
AncestryOf(load) ==
    Ancestry(load.before, load.args.directory,
             ConfigName(load.args.target, load.args.type), load.params,
             load.args.fn, Cardinality(DOMAIN load.before))

(* C20: when following `extends` from the configuration of the call ends at a
   file without a parent, config() returns a configuration; when it goes round
   a cycle (a file that extends itself too), config() returns none: it calls
   one configuration function after the other until the stack is full, and
   throws. *)
C20_ReturnsUnlessCycle ==
    HasCalled =>
        /\ AncestryOf(Called) = "root" => Called.ok
        /\ AncestryOf(Called) = "cycle" =>
              /\ ~Called.ok
              /\ Called.error = "RangeError"
              /\ Called.config = EmptyObject
              /\ Called.merges = <<>>
              /\ Len(Called.calls) = MaxStack
              /\ files = Called.before

C20_Witness ==
    /\ HasCalled
    /\ ~Called.ok
    /\ Called.error = "RangeError"
    /\ Len(Called.calls) = MaxStack
    /\ Called.calls[1].path = Called.calls[3].path
    /\ Called.calls[1].path # Called.calls[2].path

\* the call threw the error: it returned no configuration, merged nothing and
\* left the files as they were
Failed(load, error) ==
    /\ ~load.ok
    /\ load.error = error
    /\ load.config = EmptyObject
    /\ load.merges = <<>>
    /\ files = load.before

(* C21: a call for a file that is not there throws MODULE_NOT_FOUND, and so
   does a call whose configuration, or a parent of it, extends a file that is
   not there; a call for a variation the file does not export throws a
   TypeError. The error reaches the caller: no configuration comes back,
   merge is not called, and no configuration function is called again. *)
C21_LoaderErrorsPropagate ==
    HasCalled =>
        /\ TopPath(Called) \notin DOMAIN Called.before =>
              Failed(Called, "MODULE_NOT_FOUND") /\ Called.calls = <<>>
        /\ (TopPath(Called) \in DOMAIN Called.before
              /\ ~HasSelected(Called.before, Called)) =>
              Failed(Called, "TypeError") /\ Called.calls = <<>>
        /\ (HasSelected(Called.before, Called) /\ AncestryOf(Called) = "broken") =>
              /\ Failed(Called, "MODULE_NOT_FOUND")
              /\ Len(Called.calls) >= 1
              /\ \A i, j \in 1..Len(Called.calls) :
                    Called.calls[i].path = Called.calls[j].path => i = j

C21_Witness ==
    /\ HasCalled
    /\ Called.args.target = <<"app">>
    /\ Called.args.fn = JsUndefined
    /\ ~Called.ok
    /\ Called.error = "MODULE_NOT_FOUND"
    /\ Len(Called.calls) = 1
    /\ Get(Called.before[Called.calls[1].path].call.config, "extends")
          = Str(<<"missing">>)
    /\ Called.merges = <<>>

\* the object the i-th configuration function of the call gave, as it goes
\* into the merge: without its `extends` when it has a parent
Link(load, i) ==
    LET call == load.calls[i]
        configModule == load.before[call.path]
        config == CallConfig(IF ToBoolean(call.fn) THEN configModule.props[call.fn.s]
                             ELSE configModule.call, load.params)
    IN  IF i < Len(load.calls) THEN Delete(config, "extends") ELSE config

\* the first of the objects of the call, from the most derived on, with the key
FirstWith(load, key) ==
    CHOOSE i \in 1..Len(load.calls) :
        /\ key \in DOMAIN Link(load, i)
        /\ \A j \in 1..(i - 1) : key \notin DOMAIN Link(load, j)

(* C30: a configuration whose parents end, after any number of them, at one
   without a parent comes back merged from that one down: merge is called once
   per parent, first with the last parent and the one before it, then with
   what came of it and the next one down; the result has the keys of all of
   them, each with the value of the most derived configuration that has it. *)
C30_ChainMergesFromRoot ==
    (HasCalled /\ AncestryOf(Called) = "root") =>
        LET n == Len(Called.calls)
        IN  /\ Called.ok
            /\ Len(Called.merges) = n - 1
            /\ DOMAIN Called.config = UNION { DOMAIN Link(Called, i) : i \in 1..n }
            /\ \A key \in DOMAIN Called.config :
                  Called.config[key] = Link(Called, FirstWith(Called, key))[key]
            /\ \A k \in 1..(n - 1) :
                  /\ Called.merges[k][2] = Link(Called, n - k)
                  /\ Called.merges[k][1] =
                        (IF k = 1 THEN Link(Called, n)
                         ELSE [key \in (DOMAIN Called.merges[k - 1][1])
                                         \cup (DOMAIN Called.merges[k - 1][2]) |->
                                 IF key \in DOMAIN Called.merges[k - 1][2]
                                 THEN Called.merges[k - 1][2][key]
                                 ELSE Called.merges[k - 1][1][key]])

C30_Witness ==
    /\ HasCalled
    /\ Called.ok
    /\ Len(Called.calls) = 3
    /\ Len(Called.merges) = 2
    /\ Called.merges[1][1] = Called.before[Called.calls[3].path].call.config
    /\ Called.config = ("name" :> Str(<<"app-production">>)
                         @@ "fromBase" :> Str(<<"true">>)
                         @@ "resolve" :> Str(<<"js">>))

(* C31: when following `extends` from the configuration of the call ends at a
   file without a parent, the configuration config() returns has no `extends`
   key, whatever the files give as `extends`. *)
C31_ExtendsNeverReturned ==
    (HasCalled /\ AncestryOf(Called) = "root") =>
        /\ Called.ok
        /\ "extends" \notin DOMAIN Called.config

----------------------------------------------------------------------------
(* The runner's log and the two sides of its state *)

Starting == Line("green", Tagged(<<"Starting bundle process">>))
Stopping == Line("grey", Tagged(<<"Stopping bundle process">>))

\* the step forks a child, the step asks a child to stop
Launches == Forked(childOps') = Forked(childOps) + 1
Terminates == Killed(childOps') = Killed(childOps) + 1

(* C28: a done that forks a child logs two lines, a blank one and 'Starting
   bundle process'; a compile that stops a child logs one, 'Stopping bundle
   process'; but for the setup, a step adds two lines per fork and one per
   kill and nothing else, so that the log is as long as the lines of the setup
   and two per fork and one per kill; and after after-emit, done and any
   (compile, done) the last three lines are Stopping, blank, Starting. *)
C28_LogLinesPerTransition ==
    [][ /\ Logged
        /\ (Delivers("done") /\ Launches) => NewLines = <<Blank, Starting>>
        /\ (Delivers("compile") /\ Terminates) => NewLines = <<Stopping>>
        /\ ~RunsSetup =>
              Len(console') = Len(console)
                  + 2 * (Forked(childOps') - Forked(childOps))
                  + (Killed(childOps') - Killed(childOps))
        /\ (Delivers("done") /\ IsRestartRun' /\ Triggered' >= 4 /\ Truthy(_entry)) =>
              /\ Len(console') >= 3
              /\ SubSeq(console', Len(console') - 2, Len(console'))
                    = <<Stopping, Blank, Starting>> ]_vars

C28_Witness ==
    /\ IsRestartRun
    /\ Triggered = 6
    /\ EntrySelected
    /\ Len(console) = 3 + 2 * Forked(childOps) + Killed(childOps)
    /\ Forked(childOps) = 3
    /\ Killed(childOps) = 2
    /\ SubSeq(console, Len(console) - 5, Len(console))
          = <<Stopping, Blank, Starting, Stopping, Blank, Starting>>

(* C29: after-emit never changes running or the handle and never forks or
   kills a child; compile and done never change the setup flag, the entry or
   the entry path. *)
C29_SetupAndRunAreApart ==
    [][ /\ Delivers("after-emit") => UNCHANGED <<_running, _instance, childOps, alive>>
        /\ (Delivers("compile") \/ Delivers("done")) =>
              UNCHANGED <<_setup, _entry, _entryPath, callbackCalls>> ]_vars

C29_Witness ==
    /\ Delivered(2, 1, 2)
    /\ EntrySelected
    /\ _running
    /\ _instance # NullInstance
    /\ Forked(childOps) = 2
    /\ Killed(childOps) = 1
    /\ childOps[Len(childOps)].op = "fork"
    /\ callbackCalls = 2

----------------------------------------------------------------------------
(* WebpackNodeUtils.externals and the constructor. A package name is one
   token; a package.json is <<>> when the file is not there, else
   <<its sections>>, a section being the list of its entries in order. *)

\* an argument that is left out, or null; an argument that is given
NotGiven == [given |-> FALSE, list |-> <<>>]
Given(list) == [given |-> TRUE, list |-> list]

\* an entry of a section of package.json, an entry of extras
Dep(name) == [name |-> name, value |-> "1.0.0"]
Extra(name, path) == [name |-> name, value |-> path]

PackageJSON(sections, dependencies, devDependencies) ==
    << [sections |-> sections, dependencies |-> dependencies,
        devDependencies |-> devDependencies] >>

Manifests ==
    { PackageJSON({"dependencies", "devDependencies"},
                  <<Dep("webpack-merge"), Dep("custom-dep")>>, <<Dep("jest-cli")>>),
      PackageJSON({"dependencies", "devDependencies"},
                  <<Dep("webpack-merge"), Dep("normalize.css"), Dep("colors/safe")>>,
                  <<Dep("jest-cli"), Dep("font-awesome"), Dep("webpack-merge")>>),
      PackageJSON({"dependencies"}, <<Dep("custom-dep")>>, <<>>),
      PackageJSON({"devDependencies"}, <<>>, <<Dep("jest-cli")>>),
      <<>> }

ExtrasArgs ==
    { NotGiven, Given(<<>>),
      Given(<<Extra("my-mod", "../modules/my-mod.js")>>),
      Given(<<Extra("custom-dep", "./vendor/custom-dep.js"),
              Extra("normalize.css", "./styles/normalize.css")>>) }

DefaultsArgs ==
    { NotGiven, Given(<<>>), Given(<<"some-default">>),
      Given(<<"font-awesome", "jest-cli">>) }

IgnoreArgs ==
    { NotGiven, Given(<<>>), Given(<<"custom-dep">>),
      Given(<<"webpack-node-utils", "jest-cli">>) }

Commonjs_Bare(text) == <<text>>

\* `commonjs ${text}`
Commonjs(text) == <<"commonjs ", text>>

\* result[key] = value
Put(result, key, value) ==
    [k \in (DOMAIN result) \cup {key} |-> IF k = key THEN value ELSE result[k]]

DefaultsDeps(defaults) ==
    IF defaults.given THEN defaults.list
    ELSE <<"webpack-node-utils", "colors/safe">>

IgnoreDeps_Extended(ignore) ==
    <<"normalize.css", "font-awesome", "react-tap-event-plugin">> \o ignore.list

IgnoreDeps(ignore) ==
    IF ignore.given THEN ignore.list
    ELSE <<"normalize.css", "font-awesome", "react-tap-event-plugin">>

DevDeps_Always(addDev, manifest) == ObjectKeys(manifest.devDependencies)

\* addDev ? Object.keys(packageJSON.devDependencies) : []
DevDeps(addDev, manifest) ==
    IF addDev THEN ObjectKeys(manifest.devDependencies) ELSE <<>>

RECURSIVE AddPackages(_, _, _)
\* the forEach over the names: each one that is not ignored is written
AddPackages(result, names, ignoreDeps) ==
    IF names = <<>> THEN result
    ELSE LET pckg == Head(names)
         IN  AddPackages(IF IndexOf(ignoreDeps, pckg) = -1
                         THEN Put(result, pckg, Commonjs(pckg))
                         ELSE result,
                         Tail(names), ignoreDeps)

RECURSIVE AddExtras(_, _)
\* the forEach over the keys of extras: each one is written
AddExtras(result, extras) ==
    IF extras = <<>> THEN result
    ELSE AddExtras(Put(result, Head(extras).name, Commonjs(Head(extras).value)),
                   Tail(extras))

Result_ExtrasFirst(names, extras, ignoreDeps) ==
    AddPackages(IF extras.given THEN AddExtras(EmptyObject, extras.list)
                ELSE EmptyObject,
                names, ignoreDeps)

\* the result: the names first, and then, if (extras), the extras
Result(names, extras, ignoreDeps) ==
    LET result == AddPackages(EmptyObject, names, ignoreDeps)
    IN  IF extras.given THEN AddExtras(result, extras.list) ELSE result

\* what a call left: its arguments and whether it returned the result or threw
\* the error
Outcome(op, args, ok, error, result) ==
    [op |-> op, args |-> args, ok |-> ok, error |-> error, result |-> result]

ExternalsArgs(extras, addDev, defaults, ignore) ==
    [extras |-> extras, addDev |-> addDev, defaults |-> defaults, ignore |-> ignore]

Externals_ReadsBothSections(extras, addDev, defaults, ignore) ==
    /\ LET args == ExternalsArgs(extras, addDev, defaults, ignore)
       IN  IF packageJSON = <<>>
           THEN outcome' = <<Outcome("externals", args, FALSE, "MODULE_NOT_FOUND",
                                     EmptyObject)>>
           ELSE IF \/ "dependencies" \notin packageJSON[1].sections
                   \/ "devDependencies" \notin packageJSON[1].sections
           THEN outcome' = <<Outcome("externals", args, FALSE, "TypeError",
                                     EmptyObject)>>
           ELSE outcome' =
                  <<Outcome("externals", args, TRUE, "",
                            Result(DefaultsDeps(defaults)
                                     \o ObjectKeys(packageJSON[1].dependencies)
                                     \o DevDeps(addDev, packageJSON[1]),
                                   extras, IgnoreDeps(ignore)))>>
    /\ UNCHANGED <<packageJSON, instances>>
    /\ UNCHANGED <<files, now, loaded>>
    /\ UNCHANGED runnerVars

\* externals(extras, addDev, defaults, ignore)
Externals(extras, addDev, defaults, ignore) ==
    /\ LET args == ExternalsArgs(extras, addDev, defaults, ignore)
       IN  IF packageJSON = <<>>
           THEN outcome' = <<Outcome("externals", args, FALSE, "MODULE_NOT_FOUND",
                                     EmptyObject)>>
           ELSE IF \/ "dependencies" \notin packageJSON[1].sections
                   \/ addDev /\ "devDependencies" \notin packageJSON[1].sections
           THEN outcome' = <<Outcome("externals", args, FALSE, "TypeError",
                                     EmptyObject)>>
           ELSE outcome' =
                  <<Outcome("externals", args, TRUE, "",
                            Result(DefaultsDeps(defaults)
                                     \o ObjectKeys(packageJSON[1].dependencies)
                                     \o DevDeps(addDev, packageJSON[1]),
                                   extras, IgnoreDeps(ignore)))>>
    /\ UNCHANGED <<packageJSON, instances>>
    /\ UNCHANGED <<files, now, loaded>>
    /\ UNCHANGED runnerVars

New_Allowed ==
    /\ instances' = instances + 1
    /\ outcome' = <<Outcome("new", ExternalsArgs(NotGiven, FALSE, NotGiven, NotGiven),
                            TRUE, "", EmptyObject)>>

\* new WebpackNodeUtils(): the constructor throws
New ==
    /\ instances' = instances
    /\ outcome' = <<Outcome("new", ExternalsArgs(NotGiven, FALSE, NotGiven, NotGiven),
                            FALSE, "This class is meant to be used without an instance",
                            EmptyObject)>>

Construct ==
    /\ New
    /\ UNCHANGED packageJSON
    /\ UNCHANGED <<files, now, loaded>>
    /\ UNCHANGED runnerVars

InitUtils ==
    /\ RunnerIdle
    /\ files = <<>>
    /\ now = 0
    /\ loaded = <<>>
    /\ packageJSON \in Manifests
    /\ instances = 0
    /\ outcome = <<>>

NextUtils ==
    \/ \E extras \in ExtrasArgs, addDev \in BOOLEAN, defaults \in DefaultsArgs,
          ignore \in IgnoreArgs : Externals(extras, addDev, defaults, ignore)
    \/ Construct

SpecUtils == InitUtils /\ [][NextUtils]_vars

----------------------------------------------------------------------------
(* What a call of externals() and of the constructor is seen to do *)

\* externals() was called last, and returned
Returned == outcome # <<>> /\ outcome[1].op = "externals" /\ outcome[1].ok

\* the names in a list of names, the names of a list of entries
Names(list) == { list[i] : i \in 1..Len(list) }
Keys(entries) == { entries[i].name : i \in 1..Len(entries) }

\* the names package.json has as dependencies and as devDependencies
Production == Keys(packageJSON[1].dependencies)
Development == Keys(packageJSON[1].devDependencies)

BuiltInDefaults == {"webpack-node-utils", "colors/safe"}
BuiltInIgnore == {"normalize.css", "font-awesome", "react-tap-event-plugin"}

\* the defaults, the ignore list and the extras the last call goes by
Defaults ==
    IF outcome[1].args.defaults.given THEN Names(outcome[1].args.defaults.list)
    ELSE BuiltInDefaults
Ignored ==
    IF outcome[1].args.ignore.given THEN Names(outcome[1].args.ignore.list)
    ELSE BuiltInIgnore
Extras == Keys(outcome[1].args.extras.list)

\* the last call had no arguments
NoArguments ==
    outcome[1].args = ExternalsArgs(NotGiven, FALSE, NotGiven, NotGiven)

(* C22: externals() without arguments returns a map whose keys are the
   built-in defaults and the dependencies of package.json but for the names of
   the built-in ignore list, each key k with the value "commonjs k"; a name
   that is only among the devDependencies is not a key. *)
C22_NoArgumentsDefaultsAndProduction ==
    (Returned /\ NoArguments) =>
        /\ DOMAIN outcome[1].result = (BuiltInDefaults \cup Production) \ BuiltInIgnore
        /\ \A k \in DOMAIN outcome[1].result : outcome[1].result[k] = <<"commonjs ", k>>
        /\ \A k \in Development \ (Production \cup BuiltInDefaults) :
              k \notin DOMAIN outcome[1].result

C22_Witness ==
    /\ Returned
    /\ NoArguments
    /\ Production = {"webpack-merge", "normalize.css", "colors/safe"}
    /\ "jest-cli" \in Development
    /\ DOMAIN outcome[1].result = {"webpack-node-utils", "colors/safe", "webpack-merge"}
    /\ outcome[1].result["colors/safe"] = <<"commonjs ", "colors/safe">>

(* C23: every key k of extras is a key of the result with the value
   "commonjs " and extras[k], also when k is in the ignore list and when k is
   a default or a dependency too. *)
C23_ExtrasAlwaysWritten ==
    Returned =>
        \A i \in 1..Len(outcome[1].args.extras.list) :
            LET extra == outcome[1].args.extras.list[i]
            IN  /\ extra.name \in DOMAIN outcome[1].result
                /\ outcome[1].result[extra.name] = <<"commonjs ", extra.value>>

C23_Witness ==
    /\ Returned
    /\ ~outcome[1].args.ignore.given
    /\ "custom-dep" \in Production
    /\ "normalize.css" \in BuiltInIgnore
    /\ Extras = {"custom-dep", "normalize.css"}
    /\ outcome[1].result["custom-dep"] = <<"commonjs ", "./vendor/custom-dep.js">>
    /\ outcome[1].result["normalize.css"] = <<"commonjs ", "./styles/normalize.css">>

(* C24: with addDev every devDependency that is not ignored is a key of the
   result, next to the defaults and the dependencies that are not ignored;
   without addDev a name that is a devDependency only, and no default and no
   key of extras, is not a key of the result. *)
C24_DevDependenciesOnRequest ==
    Returned =>
        /\ outcome[1].args.addDev =>
              \A k \in (Development \cup Production \cup Defaults) \ Ignored :
                  k \in DOMAIN outcome[1].result
        /\ ~outcome[1].args.addDev =>
              \A k \in Development \ (Production \cup Defaults \cup Extras) :
                  k \notin DOMAIN outcome[1].result

C24_Witness ==
    /\ Returned
    /\ outcome[1].args = ExternalsArgs(Given(<<>>), TRUE, NotGiven, NotGiven)
    /\ outcome[1].result =
          ("colors/safe" :> <<"commonjs ", "colors/safe">>
           @@ "webpack-merge" :> <<"commonjs ", "webpack-merge">>
           @@ "custom-dep" :> <<"commonjs ", "custom-dep">>
           @@ "webpack-node-utils" :> <<"commonjs ", "webpack-node-utils">>
           @@ "jest-cli" :> <<"commonjs ", "jest-cli">>)

(* C25: a name of the ignore list the call goes by is a key of the result
   only as a key of extras, be it a default, a dependency or a devDependency;
   an ignore list of the caller's stands in for the built-in one, whose names
   are ignored no more, and defaults of the caller's stand in for the built-in
   defaults: the keys are the defaults, the dependencies and, with addDev, the
   devDependencies that are not ignored, and the keys of extras. *)
C25_IgnoreListFilters ==
    Returned =>
        LET listed == Defaults \cup Production
                        \cup (IF outcome[1].args.addDev THEN Development ELSE {})
        IN  /\ \A k \in Ignored \ Extras : k \notin DOMAIN outcome[1].result
            /\ DOMAIN outcome[1].result = (listed \ Ignored) \cup Extras
            /\ outcome[1].args.ignore.given =>
                  \A k \in (BuiltInIgnore \cap listed) \ Ignored :
                      k \in DOMAIN outcome[1].result
            /\ outcome[1].args.defaults.given =>
                  \A k \in BuiltInDefaults \ (listed \cup Extras) :
                      k \notin DOMAIN outcome[1].result

C25_Witness ==
    /\ Returned
    /\ outcome[1].args = ExternalsArgs(Given(<<>>), TRUE,
                                       Given(<<"font-awesome", "jest-cli">>),
                                       Given(<<"webpack-node-utils", "jest-cli">>))
    /\ Production = {"webpack-merge", "normalize.css", "colors/safe"}
    /\ DOMAIN outcome[1].result
          = {"font-awesome", "webpack-merge", "normalize.css", "colors/safe"}

(* C26: externals() without arguments returns the dependencies of
   package.json and nothing else: the keys of the result are the names of
   the dependencies. *)
C26_NoArgumentsOnlyProduction ==
    (Returned /\ NoArguments) => DOMAIN outcome[1].result = Production

(* C27: new WebpackNodeUtils() always throws 'This class is meant to be used
   without an instance' and there is never an instance; externals() is called
   on the class, with no instance there. *)
C27_ConstructorThrows ==
    /\ instances = 0
    /\ (outcome # <<>> /\ outcome[1].op = "new") =>
          /\ ~outcome[1].ok
          /\ outcome[1].error = "This class is meant to be used without an instance"
          /\ outcome[1].result = EmptyObject

C27_Witness ==
    /\ outcome # <<>>
    /\ outcome[1].op = "new"
    /\ ~outcome[1].ok
    /\ outcome[1].error = "This class is meant to be used without an instance"
    /\ instances = 0
    /\ packageJSON # <<>>

----------------------------------------------------------------------------
(* The child the runner holds *)

\* the last thing asked of a child
LastOp == childOps[Len(childOps)]

(* C32: in every state the runner is running exactly when it holds the handle
   of a child, whatever events came and in whatever order. *)
C32_RunningIffHandle ==
    _running <=> (_instance # NullInstance)

C32_Witness ==
    /\ delivered["after-emit"] = 2
    /\ Killed(childOps) = 1
    /\ _running
    /\ _instance = 2
    /\ LastOp = [op |-> "fork", child |-> 2, path |-> _entryPath]

(* C33: the children forked are one more than the children asked to stop
   while running, and as many while stopped; forks and kills alternate, every
   kill asks the child forked just before it, so no child is asked twice and
   no handle is replaced before its child was asked to stop; the handle held
   is that of the one child not yet asked to stop. *)
C33_OneChildAtATime ==
    /\ Forked(childOps) - Killed(childOps) = (IF _running THEN 1 ELSE 0)
    /\ \A i \in 1..Len(childOps) :
          /\ childOps[i].op = (IF i % 2 = 1 THEN "fork" ELSE "kill")
          /\ i % 2 = 0 => childOps[i].child = childOps[i - 1].child
    /\ \A i, j \in 1..Len(childOps) :
          (childOps[i].op = childOps[j].op /\ childOps[i].child = childOps[j].child)
              => i = j
    /\ _instance = (IF Len(childOps) % 2 = 1 THEN LastOp.child ELSE NullInstance)

C33_Witness ==
    /\ Delivered(1, 1, 4)
    /\ Forked(childOps) = 2
    /\ Killed(childOps) = 1
    /\ _running
    /\ thrown = 0

(* C34: whatever the order of the events, a child is forked only once the
   entry path is stored: no fork has the path null, also when `done` comes
   before the first after-emit to a runner made with an entry. *)
C34_ForkOnlyWithEntryPath ==
    \A i \in 1..Len(childOps) :
        childOps[i].op = "fork" => childOps[i].path # Null

\* the step is the exit of a child and no event
Exits == alive' # alive /\ delivered' = delivered

(* C35: the exit of a child changes nothing in the runner: it stays running,
   keeps the handle and logs nothing; a `done` that finds it running with a
   child that is gone forks no other; a child after the first is forked only
   by a `done` that follows a kill, and only `compile` kills. *)
C35_ExitChangesNothing ==
    [][ /\ Exits => UNCHANGED <<plugin, childOps, console, callbackCalls, thrown>>
        /\ (Delivers("done") /\ _running /\ _instance \notin alive) =>
              UNCHANGED <<plugin, childOps, console, alive, thrown>>
        /\ (Launches /\ Forked(childOps) > 0) =>
              /\ Delivers("done")
              /\ LastOp.op = "kill"
        /\ Terminates => Delivers("compile") ]_vars

C35_Witness ==
    /\ EntrySelected
    /\ Delivered(1, 0, 3)
    /\ _running
    /\ _instance = 1
    /\ alive = {}
    /\ Forked(childOps) = 1
    /\ Killed(childOps) = 0

----------------------------------------------------------------------------
(* The entry the setup leaves *)

\* the entry name is one of the candidates
AmongCandidates(name) == \E i \in 1..Len(Candidates) : Candidates[i] = name

(* C36: the setup of a runner made without an entry that finds no candidate
   leaves no entry and no entry path and calls the callback; the setup leaves
   an entry exactly when there is a candidate and either no entry was given
   or the entry given is a candidate, and an entry path exactly when it leaves
   an entry; and a step that begins and ends without an entry forks no child
   and kills none. *)
C36_EntryIffCandidate ==
    [][ /\ RunsSetup =>
              /\ (~Truthy(_entry) /\ Len(Candidates) = 0) =>
                    /\ _entry' = Null
                    /\ _entryPath' = Null
                    /\ callbackCalls' = callbackCalls + 1
              /\ Truthy(_entry') <=>
                    /\ Len(Candidates) > 0
                    /\ ~Truthy(_entry) \/ AmongCandidates(_entry)
              /\ Truthy(_entry') <=> (_entryPath' # Null)
        /\ (~Truthy(_entry) /\ ~Truthy(_entry')) =>
              UNCHANGED <<childOps, _running, _instance, thrown>> ]_vars

C36_Witness ==
    /\ Delivered(1, 2, 2)
    /\ _setup
    /\ Len(compilation[1]) > 0
    /\ EntriesOf(compilation[1]) = <<>>
    /\ _entry = Null
    /\ _entryPath = Null
    /\ callbackCalls = 1
    /\ childOps = <<>>
    /\ console = << Blank,
                    Line("green", Tagged(<<"Using the following entry: ">> \o Null)) >>

----------------------------------------------------------------------------
(* config() called again *)

\* the step is a call of config() with the arguments of the call before it
CalledAgain ==
    /\ HasCalled
    /\ loaded'[1].count = Called.count + 1
    /\ loaded'[1].args = Called.args

(* C37: without useHash, a call of config() with the arguments of the call
   before it returns a configuration equal to the one that call returned,
   also when a configuration function returns one and the same object every
   time it is called. *)
C37_SameCallSameResult ==
    [][ (CalledAgain /\ ~Called.args.useHash) =>
          /\ loaded'[1].ok = Called.ok
          /\ loaded'[1].config = Called.config ]_vars

----------------------------------------------------------------------------
(* externals() and a package.json it cannot go by *)

\* the last call was one of externals()
CalledExternals == outcome # <<>> /\ outcome[1].op = "externals"

\* package.json is there and lacks the section
Lacks(section) == packageJSON # <<>> /\ section \notin packageJSON[1].sections

\* the call threw the error and returned no map
Threw(error) ==
    /\ ~outcome[1].ok
    /\ outcome[1].error = error
    /\ outcome[1].result = EmptyObject

(* C38: externals() throws and returns no map when package.json is not there
   (MODULE_NOT_FOUND) and when it has no dependencies (TypeError); with addDev
   it throws when package.json has no devDependencies (TypeError) too; without
   addDev a package.json with dependencies and no devDependencies gives the
   map; and these are the only calls that throw. *)
C38_ManifestErrors ==
    CalledExternals =>
        /\ packageJSON = <<>> => Threw("MODULE_NOT_FOUND")
        /\ Lacks("dependencies") => Threw("TypeError")
        /\ (outcome[1].args.addDev /\ Lacks("devDependencies")) => Threw("TypeError")
        /\ (~outcome[1].args.addDev /\ Lacks("devDependencies")
               /\ ~Lacks("dependencies")) =>
              /\ outcome[1].ok
              /\ Production \ Ignored \subseteq DOMAIN outcome[1].result
        /\ outcome[1].ok <=>
              /\ packageJSON # <<>>
              /\ ~Lacks("dependencies")
              /\ ~(outcome[1].args.addDev /\ Lacks("devDependencies"))

C38_Witness ==
    /\ CalledExternals
    /\ Lacks("devDependencies")
    /\ packageJSON[1].sections = {"dependencies"}
    /\ outcome[1].args.addDev
    /\ outcome[1].args.extras = Given(<<Extra("my-mod", "../modules/my-mod.js")>>)
    /\ Threw("TypeError")

====
